---- MODULE Spec2Model ----
(***************************************************************************)
(* diffwatch: the filesystem watcher (watcher.go), the status query        *)
(* (git.go), the file tree (filetree.go), the diff view (config.go) and    *)
(* the root bubbletea model (model.go), as one state machine.              *)
(*                                                                         *)
(* A Go string is a sequence of tokens: the path separator "/" or a name.  *)
(* Names of working-tree files are one character long, so that a relative  *)
(* path is also its sequence of characters.                                *)
(***************************************************************************)
EXTENDS Integers, Sequences, FiniteSets, Bags, TLC

\* ------------------------------------------------------------------ bounds

\* filesystem events the environment produces in one run
MaxFsEvents == 2
\* events waiting in fsw.Events
MaxEventBuf == 1
\* flush goroutines alive at the same time
MaxFlush == 2
\* flush goroutines alive at the same time, and calls of Close, in a run that fills msgCh
MaxFlushQueue == 1
MaxCloseCallsQueue == 1
\* timers that were reset after firing and are scheduled at the same time
MaxOrphans == 1
\* key presses of the operator in one run
MaxKeys == 1
\* filesystem events and key presses of one run in which the operator selects files
MaxFsEventsUser == 1
MaxKeysUser == 3
\* calls of Watcher.Close
MaxCloseCalls == 2
\* key presses of one run in which the operator uses every key
MaxKeysTree == 3
\* errors fsnotify reports in one run
MaxFsErrors == 1
\* groups of a file tree, and characters of a filter, in a direct call of a function
MaxGroups == 2
MaxFilterLen == 2

\* ------------------------------------------------------------------ strings

PathSeparator == "/"

\* Body applied to the value of e, which is evaluated once (a local variable of the code)
With(e, Body(_)) == CHOOSE r \in {Body(x) : x \in {e}} : TRUE

HasPrefix(s, p) == Len(p) <= Len(s) /\ SubSeq(s, 1, Len(p)) = p

TrimPrefixLen(s, n) == SubSeq(s, n + 1, Len(s))

\* byte order of the one-character names that occur in relative paths
ByteOrder == <<"/", "W", "X", "a", "b", "w", "x", "y", "z">>

Rank(c) == CHOOSE i \in 1..Len(ByteOrder) : ByteOrder[i] = c

\* Go's string comparison a < b
RECURSIVE StrLess(_, _)
StrLess(a, b) ==
    IF b = <<>> THEN FALSE
    ELSE IF a = <<>> THEN TRUE
    ELSE IF Head(a) = Head(b) THEN StrLess(Tail(a), Tail(b))
    ELSE Rank(Head(a)) < Rank(Head(b))

\* ------------------------------------------------------------------ the registry

RootR == <<"/", "r">>
RootS == <<"/", "s">>
DirRA == RootR \o <<"/", "a">>
DirRB == RootR \o <<"/", "b">>

Repo(name, path, watchPath) == [Name |-> name, Path |-> path, WatchPath |-> watchPath]

\* DiscoverRepos: a path that is a repository root gives Path = WatchPath, a path
\* inside a repository gives Path = the root and WatchPath = the path
RegShared == << Repo("r/a", RootR, DirRA), Repo("r/b", RootR, DirRB) >>
RegNested == << Repo("r", RootR, RootR), Repo("r/a", RootR, DirRA) >>
RegTwo == << Repo("r", RootR, RootR), Repo("s", RootS, RootS) >>

Registries == {RegShared, RegNested, RegTwo}

\* the files of the working trees that can carry uncommitted changes
FileAX == DirRA \o <<"/", "x">>
FileBY == DirRB \o <<"/", "y">>
FileSZ == RootS \o <<"/", "z">>
WorkFiles == {FileAX, FileBY, FileSZ}

\* the porcelain XY code git reports for a changed file
PorcelainXY(f) == IF f = FileBY THEN <<"?", "?">> ELSE <<" ", "M">>

NoRepo == 0
NoFile == [Repo |-> NoRepo, Path |-> <<>>, Status |-> ""]

\* ------------------------------------------------------------------ git.go

\* a status display that prefers the index code to the worktree code
parseStatusIndexFirst(xy) == IF xy[1] # " " THEN xy[1] ELSE xy[2]

\* parseStatus: the two-character porcelain status to one display character
parseStatus(xy) ==
    LET x == xy[1]
        y == xy[2]
    IN  IF x = "?" \/ y = "?" THEN "?"
        ELSE IF x = "A" \/ y = "A" THEN "A"
        ELSE IF x = "D" \/ y = "D" THEN "D"
        ELSE IF x = "R" \/ y = "R" THEN "R"
        ELSE IF x = "M" \/ y = "M" THEN "M"
        ELSE IF x = "C" \/ y = "C" THEN "C"
        ELSE x

RECURSIVE SetToSeq(_)
SetToSeq(S) ==
    IF S = {} THEN <<>>
    ELSE LET e == CHOOSE e \in S : TRUE IN <<e>> \o SetToSeq(S \ {e})

\* the lines of `git -C Path status --porcelain [-- rel]` over the changed files w
StatusLines(rs, i, w) ==
    LET inRepo(f) == HasPrefix(f, rs[i].Path \o <<PathSeparator>>)
        inScope(f) == IF rs[i].WatchPath # rs[i].Path
                         THEN HasPrefix(f, rs[i].WatchPath \o <<PathSeparator>>)
                         ELSE TRUE
    IN  SetToSeq({f \in w : inRepo(f) /\ inScope(f)})

\* GetChangedFiles on success: one ChangedFile per line, sorted by Path
GetChangedFiles(rs, i, w) ==
    With(StatusLines(rs, i, w), LAMBDA lines :
    With([k \in 1..Len(lines) |->
            [Repo |-> i,
             Path |-> TrimPrefixLen(lines[k], Len(rs[i].Path) + 1),
             Status |-> parseStatus(PorcelainXY(lines[k]))]], LAMBDA files :
    SortSeq(files, LAMBDA a, b : StrLess(a.Path, b.Path))))

\* ------------------------------------------------------------------ watcher.go (pure parts)

GitDir(root) == root \o <<PathSeparator, ".git">>

\* findRepo: the first repo whose WatchPath or Path contains the path; NoRepo if none
findRepo(rs, path) ==
    LET hit(i) == \/ HasPrefix(path, rs[i].WatchPath \o <<PathSeparator>>)
                  \/ path = rs[i].WatchPath
                  \/ HasPrefix(path, rs[i].Path \o <<PathSeparator>>)
                  \/ path = rs[i].Path
        hits == {i \in 1..Len(rs) : hit(i)}
    IN  IF hits = {} THEN NoRepo
        ELSE CHOOSE i \in hits : \A j \in hits : i <= j

\* shouldIgnore: inside .git only index, HEAD and refs/** are meaningful
shouldIgnore(rs, path) ==
    LET repo == findRepo(rs, path)
        gitDir == GitDir(rs[repo].Path)
        rel == IF path = gitDir THEN <<".">>
               ELSE TrimPrefixLen(path, Len(gitDir) + 1)
    IN  IF repo = NoRepo THEN TRUE
        ELSE IF HasPrefix(path, gitDir \o <<PathSeparator>>) \/ path = gitDir
             THEN /\ rel # <<".">>
                  /\ rel # <<"index">>
                  /\ rel # <<"HEAD">>
                  /\ ~(Head(rel) = "refs")
             ELSE FALSE

\* addRepoWatches: the directories registered with fsnotify (the WatchPath subtree
\* without hidden directories, and the .git directory of the root)
Watched(rs, dir) ==
    \E i \in 1..Len(rs) :
        \/ dir = rs[i].WatchPath
        \/ HasPrefix(dir, rs[i].WatchPath \o <<PathSeparator>>)
        \/ dir = GitDir(rs[i].Path)

Dir(path) == SubSeq(path, 1, Len(path) - 2)

\* ------------------------------------------------------------------ messages and commands

\* a tea.Msg: FilesChangedMsg ("files"), FileSelectedMsg ("selected"),
\* DiffLoadedMsg ("diff"), or nil ("nil"); id numbers the FilesChangedMsg values that
\* pass through Watcher.msgCh in the order of their enqueueing (0: not enqueued)
Msg(kind, repo, files, file, err, id) ==
    [kind |-> kind, Repo |-> repo, Files |-> files, File |-> file, Err |-> err, id |-> id]

FilesChangedMsg(repo, files, id) == Msg("files", repo, files, NoFile, FALSE, id)
FileSelectedMsg(file) == Msg("selected", NoRepo, <<>>, file, FALSE, 0)
DiffLoadedMsg(file, err) == Msg("diff", NoRepo, <<>>, file, err, 0)
NilMsg == Msg("nil", NoRepo, <<>>, NoFile, FALSE, 0)

\* a tea.Cmd: WaitForChange ("wait"), loadDiff ("load"), the closure returning a
\* FileSelectedMsg ("selected"), initialScan ("scan"), refreshAll ("refresh"),
\* tea.Quit ("quit")
Cmd(kind, file) == [kind |-> kind, File |-> file]
WaitForChangeCmd == Cmd("wait", NoFile)
loadDiff(file) == Cmd("load", file)
FileSelectedCmd(file) == Cmd("selected", file)
initialScanCmd == Cmd("scan", NoFile)
refreshAllCmd == Cmd("refresh", NoFile)
QuitCmd == Cmd("quit", NoFile)

\* ------------------------------------------------------------------ filetree.go

RepoGroup(repo, files, collapsed) == [Repo |-> repo, Files |-> files, Collapsed |-> collapsed]

NewFileTreeModel ==
    [repos |-> <<>>, cursor |-> 0, selected |-> NoFile, filter |-> <<>>, filtering |-> FALSE]

ToLowerChar(c) == IF c = "W" THEN "w" ELSE IF c = "X" THEN "x" ELSE c
ToLower(s) == [k \in 1..Len(s) |-> ToLowerChar(s[k])]

Contains(s, sub) ==
    \E k \in 0..(Len(s) - Len(sub)) : SubSeq(s, k + 1, k + Len(sub)) = sub

\* a filter that distinguishes upper and lower case
filteredFilesCaseSensitive(m, ri) ==
    IF m.filter = <<>> THEN m.repos[ri].Files
    ELSE SelectSeq(m.repos[ri].Files, LAMBDA f : Contains(f.Path, m.filter))

\* filteredFiles: the files of group ri that match the filter
filteredFiles(m, ri) ==
    IF m.filter = <<>> THEN m.repos[ri].Files
    ELSE SelectSeq(m.repos[ri].Files,
                   LAMBDA f : Contains(ToLower(f.Path), ToLower(m.filter)))

flatItem(isRepo, repoIndex, fileIndex) ==
    [isRepo |-> isRepo, repoIndex |-> repoIndex, fileIndex |-> fileIndex]

\* rows in which a group without a matching file keeps its header
GroupItemsKeepHeader(m, ri) ==
    <<flatItem(TRUE, ri, 0)>> \o
    (IF m.repos[ri].Collapsed THEN <<>>
     ELSE [fi \in 1..Len(filteredFiles(m, ri)) |-> flatItem(FALSE, ri, fi)])

\* the rows group ri contributes (indices are 1-based here; a header has fileIndex 0)
GroupItems(m, ri) ==
    IF m.filter # <<>> /\ Len(filteredFiles(m, ri)) = 0 THEN <<>>
    ELSE <<flatItem(TRUE, ri, 0)>> \o
         (IF m.repos[ri].Collapsed THEN <<>>
          ELSE [fi \in 1..Len(filteredFiles(m, ri)) |-> flatItem(FALSE, ri, fi)])

RECURSIVE ItemsFrom(_, _)
ItemsFrom(m, ri) ==
    IF ri > Len(m.repos) THEN <<>>
    ELSE GroupItems(m, ri) \o ItemsFrom(m, ri + 1)

\* visibleItems: the flattened list of visible rows
visibleItems(m) == ItemsFrom(m, 1)

\* a clampCursor that leaves the cursor where it is
clampCursorNone(m) == m

\* clampCursor: cursor (0-based, as in the code) kept within the rows
clampCursor(m) ==
    With(Len(visibleItems(m)), LAMBDA n :
    With(IF m.cursor >= n THEN n - 1 ELSE m.cursor, LAMBDA c :
    [m EXCEPT !.cursor = IF c < 0 THEN 0 ELSE c]))

\* an auto-select that takes the first file of the first group, whatever is visible
FirstFileUnfiltered(m) ==
    IF m.repos = <<>> THEN NoFile ELSE m.repos[1].Files[1]

\* the first file row of the rows, or NoFile
FirstFile(m) ==
    With(visibleItems(m), LAMBDA items :
    With({k \in 1..Len(items) :
            /\ ~items[k].isRepo
            /\ items[k].fileIndex <= Len(filteredFiles(m, items[k].repoIndex))}, LAMBDA ks :
    IF ks = {} THEN NoFile
    ELSE With(CHOOSE k \in ks : \A j \in ks : k <= j, LAMBDA k :
         filteredFiles(m, items[k].repoIndex)[items[k].fileIndex])))

NoCmd == Cmd("none", NoFile)
Result(m, cmd) == [m |-> m, cmd |-> cmd]

\* handleFilesChanged, first loop: the group the message replaces
FoundGroup(rs, m, msg) ==
    LET hits == {i \in 1..Len(m.repos) : rs[m.repos[i].Repo].Path = rs[msg.Repo].Path}
    IN  IF hits = {} THEN 0 ELSE CHOOSE i \in hits : \A j \in hits : i <= j

\* a check that never finds the selected file again
stillExistsNever(rs, groups, selected) == FALSE

\* handleFilesChanged: is the selected file still in the changed set
stillExists(rs, groups, selected) ==
    \E i \in 1..Len(groups) : \E k \in 1..Len(groups[i].Files) :
        /\ rs[groups[i].Files[k].Repo].Path = rs[selected.Repo].Path
        /\ groups[i].Files[k].Path = selected.Path

\* a pruning pass that keeps every group
keptAll(groups) == groups

\* handleFilesChanged, prune: the groups with remaining files
kept(groups) == SelectSeq(groups, LAMBDA rg : Len(rg.Files) > 0)

handleFilesChanged(rs, m, msg) ==
    With(FoundGroup(rs, m, msg), LAMBDA i :
    With(IF i # 0 THEN [m.repos EXCEPT ![i].Files = msg.Files]
         ELSE IF Len(msg.Files) > 0
              THEN Append(m.repos, RepoGroup(msg.Repo, msg.Files, FALSE))
              ELSE m.repos, LAMBDA replaced :
    With(kept(replaced), LAMBDA groups :
    With(IF m.selected # NoFile /\ ~stillExists(rs, groups, m.selected)
         THEN NoFile ELSE m.selected, LAMBDA sel :
    With([m EXCEPT !.repos = groups, !.selected = sel], LAMBDA pruned :
    With(clampCursor(pruned), LAMBDA m1 :
    With(FirstFile(m1), LAMBDA file :
    IF m1.selected = NoFile /\ file # NoFile
    THEN Result([m1 EXCEPT !.selected = file], FileSelectedCmd(file))
    ELSE Result(m1, NoCmd))))))))

\* the keys whose name is one character long
OneCharKeys == {"j", "k", "c", "/", "q", "r", "x", "X", "y"}

updateFilter(m, key) ==
    IF key \in {"enter", "esc"}
    THEN Result(clampCursor([m EXCEPT !.filtering = FALSE,
                                      !.filter = IF key = "esc" THEN <<>> ELSE m.filter]),
                NoCmd)
    ELSE IF key = "backspace"
    THEN Result(clampCursor([m EXCEPT !.filter =
                    IF Len(m.filter) > 0 THEN SubSeq(m.filter, 1, Len(m.filter) - 1)
                    ELSE m.filter]), NoCmd)
    ELSE IF key \in OneCharKeys
    THEN Result(clampCursor([m EXCEPT !.filter = Append(m.filter, key)]), NoCmd)
    ELSE Result(m, NoCmd)

toggleCollapse(m, ri) ==
    clampCursor([m EXCEPT !.repos[ri].Collapsed = ~m.repos[ri].Collapsed])

updateNavigation(m, key) ==
    LET items == visibleItems(m)
        item == items[m.cursor + 1]
        files == filteredFiles(m, item.repoIndex)
    IN  IF Len(items) = 0 THEN Result(m, NoCmd)
        ELSE IF key \in {"j", "down"}
        THEN Result([m EXCEPT !.cursor = IF m.cursor < Len(items) - 1
                                         THEN m.cursor + 1 ELSE m.cursor], NoCmd)
        ELSE IF key \in {"k", "up"}
        THEN Result([m EXCEPT !.cursor = IF m.cursor > 0
                                         THEN m.cursor - 1 ELSE m.cursor], NoCmd)
        ELSE IF key = "enter"
        THEN IF m.cursor < Len(items)
             THEN IF item.isRepo
                  THEN Result(toggleCollapse(m, item.repoIndex), NoCmd)
                  ELSE IF item.fileIndex <= Len(files)
                       THEN Result([m EXCEPT !.selected = files[item.fileIndex]],
                                   FileSelectedCmd(files[item.fileIndex]))
                       ELSE Result(m, NoCmd)
             ELSE Result(m, NoCmd)
        ELSE IF key = "c"
        THEN IF m.cursor < Len(items)
             THEN Result(toggleCollapse(m, item.repoIndex), NoCmd)
             ELSE Result(m, NoCmd)
        ELSE IF key = "/"
        THEN Result([m EXCEPT !.filtering = TRUE, !.filter = <<>>], NoCmd)
        ELSE Result(m, NoCmd)

\* a FileTreeModel.Update that navigates whether or not filter mode is active
FileTreeKeyNavigate(m, key) == updateNavigation(m, key)

\* FileTreeModel.Update for a key
FileTreeKey(m, key) ==
    IF m.filtering THEN updateFilter(m, key) ELSE updateNavigation(m, key)

\* ------------------------------------------------------------------ config.go (diff view)

\* what the viewport holds: nothing, the diff of a file, or the error text of a file
NoContent == [kind |-> "none", File |-> NoFile]
DiffContent(file) == [kind |-> "diff", File |-> file]
ErrorContent(file) == [kind |-> "error", File |-> file]

NewDiffViewModel == [filePath |-> <<>>, loading |-> FALSE, content |-> NoContent]

SetLoading(d) == [d EXCEPT !.loading = TRUE]

\* DiffViewModel.Update for a DiffLoadedMsg
DiffViewLoaded(d, msg) ==
    IF msg.Err
    THEN [d EXCEPT !.loading = FALSE, !.content = ErrorContent(msg.File)]
    ELSE [d EXCEPT !.loading = FALSE, !.filePath = msg.File.Path,
                   !.content = DiffContent(msg.File)]

\* DiffViewModel.View: what the panel displays
LoadingView == [kind |-> "loading", File |-> NoFile]
PlaceholderView == [kind |-> "placeholder", File |-> NoFile]
View(d) ==
    IF d.loading THEN LoadingView
    ELSE IF d.filePath = <<>> THEN PlaceholderView
    ELSE d.content

\* ------------------------------------------------------------------ state

VARIABLES
    repos,       \* Watcher.repos / Model.repos: the registry, fixed after discovery
    wt,          \* the working trees: the files git status reports as changed
    events,      \* fsw.Events: names of filesystem events not yet received by loop
    loopRunning, \* the goroutine of Watcher.loop has not returned
    pending,     \* Watcher.pending: the repo paths with pending changes
    timer,       \* Watcher.timer # nil
    armed,       \* the timer Watcher.timer points to is scheduled to fire
    orphans,     \* scheduled timers Watcher.timer no longer points to
    flushes,     \* the running calls of Watcher.flush
    msgCh,       \* Watcher.msgCh
    done,        \* Watcher.done is closed
    cmds,        \* the tea.Cmd goroutines the program runs (a bag)
    inbox,       \* messages returned by commands, not yet passed to Model.Update (a bag)
    filetree,    \* Model.filetree
    diffview,    \* Model.diffview
    focus,       \* Model.focus
    uiRunning,   \* tea.Program.Run has not returned
    lastUpdate,  \* history: the last call of Model.Update: the kind of its message,
                 \* the message or the key, the selection and cursor before it, the commands it
                 \* returned, and the file of the last loadDiff any call returned
    handledLog,  \* history: id, repo and number of files of the FilesChangedMsg values
                 \* handled, in order
    lastHandled, \* history: per repo, the file list of the last message handled
    lastSent,    \* history: per repo, the file list of the last message flush enqueued
    nextId,      \* history: the id of the next FilesChangedMsg flush enqueues
    snaps,       \* history: how many status snapshots flush has taken, and per repo the
                 \* number of the snapshot in the last notification flush enqueued
    closes,      \* history: how often close(w.done) ran
    call,        \* history: the last direct call of a function of the program that has
                 \* no effect: its name, its arguments and what it returned
    budget       \* the bounds of the run: what the environment may still do (events,
                 \* keys, Close calls), how many flush goroutines may be alive, and
                 \* track: whether the unbounded histories (ids, handledLog) are kept

watcherVars == <<events, loopRunning, pending, timer, armed, orphans, flushes, msgCh, done>>
uiVars == <<cmds, inbox, filetree, diffview, focus, uiRunning>>
historyVars == <<lastUpdate, handledLog, lastHandled, lastSent, nextId, snaps, closes, call>>
vars == <<repos, wt, watcherVars, uiVars, historyVars, budget>>

LeftPanel == "left"
RightPanel == "right"

\* the capacity of msgCh
QueueCap == 64

\* history: no file list yet (no file list holds the nil file)
NotSent == <<NoFile>>

BagAdd(b, e) == b (+) SetToBag({e})
BagRemove(b, e) == b (-) SetToBag({e})

RECURSIVE BagAddAll(_, _)
BagAddAll(b, seq) == IF seq = <<>> THEN b ELSE BagAddAll(BagAdd(b, Head(seq)), Tail(seq))

\* history: a call of function fn with arguments arg that returned res
Call(fn, arg, res) == [fn |-> fn, arg |-> arg, res |-> res]
NoCall == Call("none", <<>>, <<>>)

\* NewWatcher, NewModel and the commands of Model.Init
InitWith(events0, keys0, closes0, flushes0, track0) ==
    /\ repos \in Registries
    /\ wt \in SUBSET {f \in WorkFiles : findRepo(repos, f) # NoRepo}
    /\ events = <<>>
    /\ loopRunning = TRUE
    /\ pending = {}
    /\ timer = FALSE
    /\ armed = FALSE
    /\ orphans = 0
    /\ flushes = <<>>
    /\ msgCh = <<>>
    /\ done = FALSE
    /\ cmds = SetToBag({initialScanCmd, WaitForChangeCmd})
    /\ inbox = EmptyBag
    /\ filetree = NewFileTreeModel
    /\ diffview = NewDiffViewModel
    /\ focus = LeftPanel
    /\ uiRunning = TRUE
    /\ lastUpdate = [kind |-> "none", msg |-> NilMsg, key |-> "", selected |-> NoFile,
                     cursor |-> 0, cmds |-> <<>>, requested |-> NoFile]
    /\ handledLog = <<>>
    /\ lastHandled = [i \in 1..Len(repos) |-> NotSent]
    /\ lastSent = [i \in 1..Len(repos) |-> NotSent]
    /\ nextId = 1
    /\ snaps = [taken |-> 0, sent |-> [i \in 1..Len(repos) |-> 0]]
    /\ closes = 0
    /\ call = NoCall
    /\ budget = [events |-> events0, keys |-> keys0, closeCalls |-> closes0,
                 errors |-> MaxFsErrors,
                 flushes |-> flushes0, track |-> track0]

Init == InitWith(MaxFsEvents, MaxKeys, MaxCloseCalls, MaxFlush, TRUE)

\* ------------------------------------------------------------------ the environment

\* the operator (or a tool) changes file f of a working tree: f becomes changed, or
\* stops being changed, or stays as it was; fsnotify reports it if its directory is watched
Edit(f) ==
    /\ budget.events > 0
    /\ findRepo(repos, f) # NoRepo
    /\ \E w2 \in {wt \cup {f}, wt \ {f}} : wt' = w2
    /\ IF Watched(repos, Dir(f)) /\ ~done
       THEN Len(events) < MaxEventBuf /\ events' = Append(events, f)
       ELSE UNCHANGED events
    /\ budget' = [budget EXCEPT !.events = @ - 1]
    /\ UNCHANGED <<repos, loopRunning, pending, timer, armed, orphans, flushes, msgCh, done,
                   uiVars, historyVars>>

\* file f is written again and again without a change of its status
Touch(f) ==
    /\ Watched(repos, Dir(f))
    /\ ~done
    /\ Len(events) < MaxEventBuf
    /\ events' = Append(events, f)
    /\ UNCHANGED <<repos, wt, loopRunning, pending, timer, armed, orphans, flushes, msgCh, done,
                   uiVars, historyVars, budget>>

\* git writes an entry of the .git directory of a tracked root: the index (a commit
\* may clear the changed files of the root) or the index lock
GitWrite(i, name) ==
    /\ budget.events > 0
    /\ ~done
    /\ Len(events) < MaxEventBuf
    /\ events' = Append(events, GitDir(repos[i].Path) \o <<PathSeparator, name>>)
    /\ IF name = "index"
       THEN \E w2 \in {wt, {f \in wt : ~HasPrefix(f, repos[i].Path \o <<PathSeparator>>)}} :
                wt' = w2
       ELSE UNCHANGED wt
    /\ budget' = [budget EXCEPT !.events = @ - 1]
    /\ UNCHANGED <<repos, loopRunning, pending, timer, armed, orphans, flushes, msgCh, done,
                   uiVars, historyVars>>

\* ------------------------------------------------------------------ watcher.go

\* a loop that resets the timer it has and creates none
ArmTimerResetOnly(t) == t

\* loop, w.timer == nil: time.AfterFunc creates an armed timer; else Reset arms the
\* timer again, whether it has fired or not; t says whether w.timer is set
ArmTimer(t) == TRUE

\* loop, case event: mark the repo pending and arm or reset the debounce timer; at most
\* MaxOrphans timers are armed beside the one Watcher.timer refers to
LoopEvent ==
    /\ loopRunning
    /\ events # <<>>
    /\ events' = Tail(events)
    /\ LET name == Head(events)
           repo == findRepo(repos, name)
       IN  IF shouldIgnore(repos, name) \/ repo = NoRepo
           THEN UNCHANGED <<pending, timer, armed>>
           ELSE /\ armed \/ orphans < MaxOrphans
                /\ pending' = pending \cup {repos[repo].Path}
                /\ timer' = TRUE
                /\ armed' = ArmTimer(timer)
    /\ UNCHANGED <<repos, wt, loopRunning, orphans, flushes, msgCh, done,
                   uiVars, historyVars, budget>>

\* loop, case <-w.fsw.Errors with ok: the error is dropped and the loop goes on
LoopAfterError(running) == running

\* fsnotify reports an error and loop receives it
LoopError ==
    /\ loopRunning
    /\ ~done
    /\ budget.errors > 0
    /\ budget' = [budget EXCEPT !.errors = @ - 1]
    /\ loopRunning' = LoopAfterError(loopRunning)
    /\ UNCHANGED <<repos, wt, events, pending, timer, armed, orphans, flushes, msgCh, done,
                   uiVars, historyVars>>

\* loop, case <-w.done (or fsw.Events closed by Close)
LoopDone ==
    /\ loopRunning
    /\ done
    /\ loopRunning' = FALSE
    /\ UNCHANGED <<repos, wt, events, pending, timer, armed, orphans, flushes, msgCh, done,
                   uiVars, historyVars, budget>>

\* a call of flush: where it is, the paths it has still to query, the message it is
\* sending, and (history) how many paths it skipped after a failed query and the
\* number of the status snapshot in msg
NewFlush == [pc |-> "start", paths |-> <<>>, msg |-> NilMsg, skipped |-> 0, snap |-> 0]

\* the debounce timer fires: flush starts in its own goroutine
TimerFire ==
    /\ armed
    /\ Len(flushes) < budget.flushes
    /\ armed' = FALSE
    /\ flushes' = Append(flushes, NewFlush)
    /\ UNCHANGED <<repos, wt, events, loopRunning, pending, timer, orphans, msgCh, done,
                   uiVars, historyVars, budget>>

\* a timer that was reset after it had fired, and that flush has since dropped from
\* Watcher.timer, fires
OrphanFire ==
    /\ orphans > 0
    /\ Len(flushes) < budget.flushes
    /\ orphans' = orphans - 1
    /\ flushes' = Append(flushes, NewFlush)
    /\ UNCHANGED <<repos, wt, events, loopRunning, pending, timer, armed, msgCh, done,
                   uiVars, historyVars, budget>>

RemoveAt(seq, i) == SubSeq(seq, 1, i - 1) \o SubSeq(seq, i + 1, Len(seq))

\* flush i goes on to its next path, or returns
Advance(fl, i, rest) ==
    IF rest = <<>> THEN RemoveAt(fl, i)
    ELSE [fl EXCEPT ![i].pc = "query", ![i].paths = rest, ![i].msg = NilMsg]

\* a flush that returns when a status query fails
SkipPathReturn(fl, i) == RemoveAt(fl, i)

\* flush, err != nil: continue with the next path
SkipPath(fl, i) == Advance([fl EXCEPT ![i].skipped = @ + 1], i, Tail(fl[i].paths))

\* the orders in which ranging over the map can yield its keys
Orders(S) == {seq \in [1..Cardinality(S) -> S] : \A a, b \in 1..Cardinality(S) :
                                                    a # b => seq[a] # seq[b]}

\* flush, under the mutex: take the pending paths, clear pending and timer
FlushTake(i) ==
    /\ flushes[i].pc = "start"
    /\ \E paths \in Orders(pending) : flushes' = Advance(flushes, i, paths)
    /\ pending' = {}
    /\ timer' = FALSE
    /\ armed' = FALSE
    /\ orphans' = IF armed THEN orphans + 1 ELSE orphans
    /\ UNCHANGED <<repos, wt, events, loopRunning, msgCh, done, uiVars, historyVars, budget>>

\* history: the number of a status snapshot taken now
NewSnap == IF budget.track THEN snaps.taken + 1 ELSE 0

\* flush: findRepo and GetChangedFiles for the next path; an error skips the path
FlushQuery(i) ==
    /\ flushes[i].pc = "query"
    /\ LET path == Head(flushes[i].paths)
           repo == findRepo(repos, path)
       IN  IF repo = NoRepo
           THEN /\ flushes' = Advance(flushes, i, Tail(flushes[i].paths))
                /\ UNCHANGED snaps
           ELSE \E ok \in BOOLEAN :
                  IF ok
                  THEN /\ flushes' = [flushes EXCEPT ![i].pc = "send", ![i].snap = NewSnap,
                            ![i].msg = FilesChangedMsg(repo, GetChangedFiles(repos, repo, wt), 0)]
                       /\ snaps' = [snaps EXCEPT !.taken = NewSnap]
                  ELSE /\ flushes' = SkipPath(flushes, i)
                       /\ UNCHANGED snaps
    /\ UNCHANGED <<repos, wt, events, loopRunning, pending, timer, armed, orphans, msgCh, done,
                   uiVars, lastUpdate, handledLog, lastHandled, lastSent, nextId, closes, call,
                   budget>>

\* history: the id of a FilesChangedMsg enqueued now, and nextId after it
NewId == IF budget.track THEN nextId ELSE 0
IdAfter == IF budget.track THEN nextId + 1 ELSE nextId

\* a msgCh without a capacity
CanSendAlways(ch) == TRUE

\* the send on msgCh can proceed
CanSend(ch) == Len(ch) < QueueCap

\* flush, select case w.msgCh <- msg
FlushSend(i) ==
    /\ flushes[i].pc = "send"
    /\ CanSend(msgCh)
    /\ msgCh' = Append(msgCh, [flushes[i].msg EXCEPT !.id = NewId])
    /\ nextId' = IdAfter
    /\ lastSent' = [lastSent EXCEPT ![flushes[i].msg.Repo] = flushes[i].msg.Files]
    /\ snaps' = [snaps EXCEPT !.sent[flushes[i].msg.Repo] = flushes[i].snap]
    /\ flushes' = Advance(flushes, i, Tail(flushes[i].paths))
    /\ UNCHANGED <<repos, wt, events, loopRunning, pending, timer, armed, orphans, done,
                   uiVars, lastUpdate, handledLog, lastHandled, closes, call, budget>>

\* flush, select case <-w.done: return
FlushCancel(i) ==
    /\ flushes[i].pc = "send"
    /\ done
    /\ flushes' = RemoveAt(flushes, i)
    /\ UNCHANGED <<repos, wt, events, loopRunning, pending, timer, armed, orphans, msgCh, done,
                   uiVars, historyVars, budget>>

\* a Close that closes w.done without looking whether it is closed
CloseDoneUnguarded(d, n) == [done |-> TRUE, closes |-> n + 1]

\* Close: close(w.done) unless it is closed already, then fsw.Close()
CloseDone(d, n) == IF d THEN [done |-> TRUE, closes |-> n] ELSE [done |-> TRUE, closes |-> n + 1]

\* main: the deferred watcher.Close() after Program.Run has returned (and a further call)
Close ==
    /\ ~uiRunning
    /\ budget.closeCalls > 0
    /\ budget' = [budget EXCEPT !.closeCalls = @ - 1]
    /\ done' = CloseDone(done, closes).done
    /\ closes' = CloseDone(done, closes).closes
    /\ events' = IF done THEN events ELSE <<>>
    /\ UNCHANGED <<repos, wt, loopRunning, pending, timer, armed, orphans, flushes, msgCh,
                   uiVars, lastUpdate, handledLog, lastHandled, lastSent, nextId, snaps, call>>

\* ------------------------------------------------------------------ model.go: commands

\* a command goroutine returns msg: the program passes it on to Model.Update while it
\* runs, drops nil, and drops everything once it has quit
Deliver(box, msg) == IF uiRunning /\ msg.kind # "nil" THEN BagAdd(box, msg) ELSE box

Min(S) == CHOOSE i \in S : \A j \in S : i <= j

\* initialScan: the first repo whose status query succeeds with a non-empty list;
\* failing is the set of repos whose query fails
initialScan(rs, w, failing) ==
    With({i \in 1..Len(rs) : i \notin failing /\ Len(GetChangedFiles(rs, i, w)) > 0},
         LAMBDA cand :
    IF cand = {} THEN NilMsg
    ELSE With(Min(cand), LAMBDA i : FilesChangedMsg(i, GetChangedFiles(rs, i, w), 0)))

\* refreshAll: the first repo whose status query succeeds
refreshAll(rs, w, failing) ==
    With({i \in 1..Len(rs) : i \notin failing}, LAMBDA cand :
    IF cand = {} THEN NilMsg
    ELSE With(Min(cand), LAMBDA i : FilesChangedMsg(i, GetChangedFiles(rs, i, w), 0)))

RunScan ==
    /\ BagIn(initialScanCmd, cmds)
    /\ \E failing \in SUBSET (1..Len(repos)) :
          \E msg \in {initialScan(repos, wt, failing)} : inbox' = Deliver(inbox, msg)
    /\ cmds' = BagRemove(cmds, initialScanCmd)
    /\ UNCHANGED <<repos, wt, watcherVars, filetree, diffview, focus, uiRunning,
                   historyVars, budget>>

RunRefresh ==
    /\ BagIn(refreshAllCmd, cmds)
    /\ \E failing \in SUBSET (1..Len(repos)) :
          \E msg \in {refreshAll(repos, wt, failing)} : inbox' = Deliver(inbox, msg)
    /\ cmds' = BagRemove(cmds, refreshAllCmd)
    /\ UNCHANGED <<repos, wt, watcherVars, filetree, diffview, focus, uiRunning,
                   historyVars, budget>>

\* WaitForChange, select case msg := <-w.msgCh
WaitReceive ==
    /\ BagIn(WaitForChangeCmd, cmds)
    /\ msgCh # <<>>
    /\ msgCh' = Tail(msgCh)
    /\ inbox' = Deliver(inbox, Head(msgCh))
    /\ cmds' = BagRemove(cmds, WaitForChangeCmd)
    /\ UNCHANGED <<repos, wt, events, loopRunning, pending, timer, armed, orphans, flushes,
                   done, filetree, diffview, focus, uiRunning, historyVars, budget>>

\* a WaitForChange that receives from msgCh only
WaitDoneNever == FALSE

\* WaitForChange, select case <-w.done: return nil
WaitDone ==
    /\ BagIn(WaitForChangeCmd, cmds)
    /\ done
    /\ cmds' = BagRemove(cmds, WaitForChangeCmd)
    /\ UNCHANGED <<repos, wt, watcherVars, inbox, filetree, diffview, focus, uiRunning,
                   historyVars, budget>>

\* loadDiff: GetDiff returns the rendered diff or an error
RunLoad(c) ==
    /\ c.kind = "load"
    /\ BagIn(c, cmds)
    /\ \E err \in BOOLEAN : inbox' = Deliver(inbox, DiffLoadedMsg(c.File, err))
    /\ cmds' = BagRemove(cmds, c)
    /\ UNCHANGED <<repos, wt, watcherVars, filetree, diffview, focus, uiRunning,
                   historyVars, budget>>

\* the closure of updateNavigation returns its FileSelectedMsg
RunSelected(c) ==
    /\ c.kind = "selected"
    /\ BagIn(c, cmds)
    /\ inbox' = Deliver(inbox, FileSelectedMsg(c.File))
    /\ cmds' = BagRemove(cmds, c)
    /\ UNCHANGED <<repos, wt, watcherVars, filetree, diffview, focus, uiRunning,
                   historyVars, budget>>

\* ------------------------------------------------------------------ model.go: Update

Step(ft, dv, fc, out, quit) ==
    [filetree |-> ft, diffview |-> dv, focus |-> fc, cmds |-> out, quit |-> quit]

\* a Model.Update whose case FilesChangedMsg forgets to wait for the next notification
UpdateFilesChangedNoWait(rs, ft, dv, fc, msg) ==
    Step(handleFilesChanged(rs, ft, msg).m, dv, fc, <<>>, FALSE)

\* a Model.Update whose case FilesChangedMsg waits again only after a non-empty message
UpdateFilesChangedWaitIfFiles(rs, ft, dv, fc, msg) ==
    Step(handleFilesChanged(rs, ft, msg).m, dv, fc,
         IF msg.Files = <<>> THEN <<>> ELSE <<WaitForChangeCmd>>, FALSE)

\* Model.Update, case FilesChangedMsg
UpdateFilesChanged(rs, ft, dv, fc, msg) ==
    With(handleFilesChanged(rs, ft, msg).m, LAMBDA m1 :
    With(FirstFile(m1), LAMBDA file :
    IF m1.selected = NoFile /\ file # NoFile
    THEN Step([m1 EXCEPT !.selected = file], SetLoading(dv), fc,
              <<loadDiff(file), WaitForChangeCmd>>, FALSE)
    ELSE Step(m1, dv, fc, <<WaitForChangeCmd>>, FALSE)))

\* a Model.Update whose case FileSelectedMsg shows the loading indicator and loads nothing
UpdateFileSelectedNoLoad(ft, dv, fc, msg) ==
    Step(ft, SetLoading(dv), fc, <<>>, FALSE)

\* Model.Update, case FileSelectedMsg
UpdateFileSelected(ft, dv, fc, msg) ==
    Step(ft, SetLoading(dv), fc, <<loadDiff(msg.File)>>, FALSE)

\* Model.Update, case DiffLoadedMsg
UpdateDiffLoaded(ft, dv, fc, msg) ==
    Step(ft, DiffViewLoaded(dv, msg), fc, <<>>, FALSE)

CmdSeq(cmd) == IF cmd = NoCmd THEN <<>> ELSE <<cmd>>

\* Model.Update, case tea.KeyMsg
UpdateKey(ft, dv, fc, key) ==
    IF key \in {"ctrl+c", "q"} /\ ~ft.filtering
    THEN Step(ft, dv, fc, <<QuitCmd>>, TRUE)
    ELSE IF key = "tab"
    THEN Step(ft, dv, IF fc = LeftPanel THEN RightPanel ELSE LeftPanel, <<>>, FALSE)
    ELSE IF key = "r" /\ ~ft.filtering
    THEN Step(ft, dv, fc, <<refreshAllCmd>>, FALSE)
    ELSE IF fc = LeftPanel
    THEN Step(FileTreeKey(ft, key).m, dv, fc, CmdSeq(FileTreeKey(ft, key).cmd), FALSE)
    ELSE Step(ft, dv, fc, <<>>, FALSE)

\* the file of the last loadDiff among the commands out, or before if there is none
LastLoad(out, before) ==
    With({k \in 1..Len(out) : out[k].kind = "load"}, LAMBDA ks :
    IF ks = {} THEN before ELSE out[CHOOSE k \in ks : \A j \in ks : j <= k].File)

\* the program applies the result of Update and starts the commands it returned
Apply(kind, msg, key, step) ==
    \E st \in {step} :
    /\ lastUpdate' = [kind |-> kind, msg |-> msg, key |-> key,
                      selected |-> filetree.selected, cursor |-> filetree.cursor,
                      cmds |-> st.cmds,
                      requested |-> LastLoad(st.cmds, lastUpdate.requested)]
    /\ filetree' = st.filetree
    /\ diffview' = st.diffview
    /\ focus' = st.focus
    /\ uiRunning' = ~st.quit
    /\ cmds' = BagAddAll(cmds, SelectSeq(st.cmds, LAMBDA c : c # QuitCmd))

HandleFilesChanged(msg) ==
    /\ uiRunning
    /\ msg.kind = "files"
    /\ BagIn(msg, inbox)
    /\ inbox' = BagRemove(inbox, msg)
    /\ Apply("files", msg, "", UpdateFilesChanged(repos, filetree, diffview, focus, msg))
    /\ handledLog' = IF budget.track
                      THEN Append(handledLog,
                                  [id |-> msg.id, Repo |-> msg.Repo, n |-> Len(msg.Files)])
                      ELSE handledLog
    /\ lastHandled' = [lastHandled EXCEPT ![msg.Repo] = msg.Files]
    /\ UNCHANGED <<repos, wt, watcherVars, lastSent, nextId, snaps, closes, call, budget>>

HandleFileSelected(msg) ==
    /\ uiRunning
    /\ msg.kind = "selected"
    /\ BagIn(msg, inbox)
    /\ inbox' = BagRemove(inbox, msg)
    /\ Apply("selected", msg, "", UpdateFileSelected(filetree, diffview, focus, msg))
    /\ UNCHANGED <<repos, wt, watcherVars, handledLog, lastHandled, lastSent, nextId, snaps,
                   closes, call, budget>>

HandleDiffLoaded(msg) ==
    /\ uiRunning
    /\ msg.kind = "diff"
    /\ BagIn(msg, inbox)
    /\ inbox' = BagRemove(inbox, msg)
    /\ Apply("diff", msg, "", UpdateDiffLoaded(filetree, diffview, focus, msg))
    /\ UNCHANGED <<repos, wt, watcherVars, handledLog, lastHandled, lastSent, nextId, snaps,
                   closes, call, budget>>

\* the operator presses a key and Update handles the tea.KeyMsg
Key(key) ==
    /\ uiRunning
    /\ budget.keys > 0
    /\ budget' = [budget EXCEPT !.keys = @ - 1]
    /\ Apply("key", NilMsg, key, UpdateKey(filetree, diffview, focus, key))
    /\ UNCHANGED <<repos, wt, watcherVars, inbox, handledLog, lastHandled, lastSent, nextId,
                   snaps, closes, call>>

\* ------------------------------------------------------------------ specifications

Keys == {"j", "k", "enter", "c", "/", "esc", "backspace", "x", "q", "ctrl+c", "tab", "r"}
UserKeys == {"j", "enter"}

GitNames == {"index", "index.lock"}

Running(kind) == {c \in BagToSet(cmds) : c.kind = kind}
Inbox(kind) == {m \in BagToSet(inbox) : m.kind = kind}

\* the watcher: one debounce timer and its flush
Watcher ==
    \/ LoopEvent
    \/ TimerFire
    \/ \E i \in 1..Len(flushes) : FlushTake(i)
    \/ \E i \in 1..Len(flushes) : FlushQuery(i)
    \/ \E i \in 1..Len(flushes) : FlushSend(i)

\* what runs once Watcher.done is closed
Shutdown ==
    \/ Close
    \/ LoopDone
    \/ WaitDone
    \/ \E i \in 1..Len(flushes) : FlushCancel(i)

\* the program without key presses
Program ==
    \/ RunScan
    \/ WaitReceive
    \/ \E msg \in Inbox("files") : HandleFilesChanged(msg)

\* what runs after the operator pressed enter on a file row
Selecting ==
    \/ \E c \in Running("load") : RunLoad(c)
    \/ \E c \in Running("selected") : RunSelected(c)
    \/ \E msg \in Inbox("selected") : HandleFileSelected(msg)
    \/ \E msg \in Inbox("diff") : HandleDiffLoaded(msg)

Environment ==
    \/ \E f \in WorkFiles : Edit(f)
    \/ \E i \in 1..Len(repos) : \E name \in GitNames : GitWrite(i, name)

\* the program while it runs and the operator only watches
Next ==
    \/ Watcher
    \/ OrphanFire
    \/ Program
    \/ Environment

Spec == Init /\ [][Next]_vars

\* the program while it runs and the operator moves the cursor and selects files;
\* with one filesystem event no timer is reset after it has fired
NextUser ==
    \/ Watcher
    \/ Program
    \/ Selecting
    \/ Environment
    \/ \E key \in UserKeys : Key(key)

InitUser == InitWith(MaxFsEventsUser, MaxKeysUser, MaxCloseCalls, MaxFlush, TRUE)

SpecUser == InitUser /\ [][NextUser]_vars

\* the program while it runs, with status queries that fail and notifier errors
NextErrors ==
    \/ Next
    \/ LoopError

SpecErrors == Init /\ [][NextErrors]_vars

\* the program until it has shut down: the operator presses nothing but q
NextShutdown ==
    \/ Watcher
    \/ OrphanFire
    \/ Shutdown
    \/ Program
    \/ Environment
    \/ Key("q")

SpecShutdown == Init /\ [][NextShutdown]_vars

\* every step of the program and of the watcher, none of the environment
System ==
    \/ Watcher
    \/ OrphanFire
    \/ Shutdown
    \/ Program

\* the scheduling the Go runtime and the program guarantee: while some goroutine can
\* take a step, a timer is due, a message waits to be passed to Update or main has
\* its deferred Close to call, one of them happens; no fairness for the environment
\* (files, keys)
Fairness == WF_vars(System)

\* the program until it has shut down, started on two repositories without changes,
\* with main calling Close once
InitFair ==
    /\ InitWith(MaxFsEvents, MaxKeys, MaxCloseCallsQueue, MaxFlush, TRUE)
    /\ repos = RegTwo
    /\ wt = {}

SpecShutdownFair == InitFair /\ [][NextShutdown]_vars /\ Fairness

\* backpressure: one file is written without end while the program runs and shuts
\* down; the unbounded histories are not kept
NextQueue ==
    \/ Watcher
    \/ OrphanFire
    \/ Shutdown
    \/ Program
    \/ Touch(FileAX)
    \/ Key("q")

InitQueue ==
    InitWith(0, MaxKeys, MaxCloseCallsQueue, MaxFlushQueue, FALSE) /\ repos = RegShared /\ wt = {FileAX}

SpecQueue == InitQueue /\ [][NextQueue]_vars

SpecQueueFair == SpecQueue /\ Fairness


\* the program while the operator uses every key of the file tree: notifications come
\* from initialScan and from refresh, the watcher has not yet received an event
NextKeys ==
    \/ RunScan
    \/ RunRefresh
    \/ \E msg \in Inbox("files") : HandleFilesChanged(msg)
    \/ Selecting
    \/ \E f \in WorkFiles : Edit(f)
    \/ \E key \in Keys : Key(key)

InitKeys == InitWith(MaxFsEventsUser, MaxKeysTree, MaxCloseCalls, MaxFlush, TRUE)

SpecKeys == InitKeys /\ [][NextKeys]_vars

\* ------------------------------------------------------------------ direct calls

\* relative paths of changed files, in byte order, one of them with an upper-case name
TreePaths == {<<"a", "/", "x">>, <<"b", "/", "X">>, <<"w">>}

\* the file lists GetChangedFiles can deliver for repo i over these paths: not empty
\* (no group has an empty list) and sorted by Path
TreeFileLists(i) ==
    {SortSeq(SetToSeq({[Repo |-> i, Path |-> p, Status |-> "M"] : p \in S}),
             LAMBDA a, b : StrLess(a.Path, b.Path)) : S \in (SUBSET TreePaths) \ {{}}}

TreeGroups ==
    UNION {{RepoGroup(i, fl, c) : fl \in TreeFileLists(i), c \in BOOLEAN} : i \in 1..MaxGroups}

\* the group sequences of a file tree: group k belongs to repo k
TreeGroupSeqs ==
    UNION {{gs \in [1..n -> TreeGroups] : \A k \in 1..n : gs[k].Repo = k} : n \in 0..MaxGroups}

FilterChars == {"x", "X", "a", "/"}
Filters == UNION {[1..n -> FilterChars] : n \in 0..MaxFilterLen}

\* the file trees the functions are called on
Trees ==
    {[NewFileTreeModel EXCEPT !.repos = gs, !.filter = f, !.filtering = b] :
        gs \in TreeGroupSeqs, f \in Filters, b \in BOOLEAN}

\* the characters git status --porcelain prints as index or worktree code
StatusCodes == {" ", "?", "A", "D", "R", "M", "C", "U", "T"}

callFrame == <<repos, wt, watcherVars, uiVars, lastUpdate, handledLog, lastHandled, lastSent,
               nextId, snaps, closes, budget>>

CallVisibleItems ==
    /\ call = NoCall
    /\ \E m \in Trees : call' = Call("visibleItems", <<m>>, visibleItems(m))
    /\ UNCHANGED callFrame

CallFilteredFiles ==
    /\ call = NoCall
    /\ \E m \in Trees : \E ri \in 1..Len(m.repos) :
          call' = Call("filteredFiles", <<m, ri>>, filteredFiles(m, ri))
    /\ UNCHANGED callFrame

CallParseStatus ==
    /\ call = NoCall
    /\ \E x \in StatusCodes : \E y \in StatusCodes :
          call' = Call("parseStatus", <<x, y>>, parseStatus(<<x, y>>))
    /\ UNCHANGED callFrame

\* one call of a function of the file tree or of the status parser, on any input
\* within the bounds
NextCalls ==
    \/ CallVisibleItems
    \/ CallFilteredFiles
    \/ CallParseStatus

InitCalls == InitWith(0, 0, 0, 0, FALSE) /\ repos = RegTwo /\ wt = {}

SpecCalls == InitCalls /\ [][NextCalls]_vars

\* ------------------------------------------------------------------ properties

\* the identifying pair (watchScope, relativePath) of file f occurs in the file list
\* of some group
PairInGroups(f, groups) ==
    \E g \in 1..Len(groups) : \E k \in 1..Len(groups[g].Files) :
        /\ repos[groups[g].Files[k].Repo].WatchPath = repos[f.Repo].WatchPath
        /\ groups[g].Files[k].Path = f.Path

\* the groups of the file tree that belong to repo i
GroupsOf(i) == {g \in 1..Len(filetree.repos) : filetree.repos[g].Repo = i}

\* repo i has its own group with the files of its latest handled notification, or no
\* group if that list was empty
OwnGroup(i) ==
    IF lastHandled[i] = <<>> THEN GroupsOf(i) = {}
    ELSE \E g \in GroupsOf(i) : GroupsOf(i) = {g} /\ filetree.repos[g].Files = lastHandled[i]

SharesRoot(i) ==
    \E j \in 1..Len(repos) :
        i # j /\ repos[i].Path = repos[j].Path /\ repos[i].WatchPath # repos[j].WatchPath

\* C1: two tracked repositories with the same rootPath and different watchScope never
\* replace, remove or alter each other's RepoGroup: after any sequence of handled
\* notifications each has its own group holding the files of its own latest
\* notification, or no group if that list was empty
C1_IdentityCorrectness ==
    \A i \in 1..Len(repos) : (SharesRoot(i) /\ lastHandled[i] # NotSent) => OwnGroup(i)

\* C2: flush enqueues a notification for a repository only when its file list differs
\* from the list of the previous notification enqueued for the same repository
C2_EmitsOnlyOnChange ==
    [][Len(msgCh') > Len(msgCh) =>
          msgCh'[Len(msgCh')].Files # lastSent[msgCh'[Len(msgCh')].Repo]]_vars

\* C4: for each watchScope the notifications that passed through msgCh are handled in
\* the order in which they were enqueued
C4_FifoPerScope ==
    \A a, b \in 1..Len(handledLog) :
        (/\ a < b
         /\ handledLog[a].id > 0
         /\ handledLog[b].id > 0
         /\ repos[handledLog[a].Repo].WatchPath = repos[handledLog[b].Repo].WatchPath)
        => handledLog[a].id < handledLog[b].id

\* the last call of Update handled a FilesChangedMsg and auto-select set the Selection
AutoSelected ==
    /\ lastUpdate.kind = "files"
    /\ filetree.selected # NoFile
    /\ filetree.selected # lastUpdate.selected

Issued(cmd) == \E k \in 1..Len(lastUpdate.cmds) : lastUpdate.cmds[k] = cmd
IssuedLoad == \E k \in 1..Len(lastUpdate.cmds) : lastUpdate.cmds[k].kind = "load"

\* C8: when handling a ChangeNotification sets the Selection through auto-select, the
\* same call of Update issues a diff-load request for the newly selected file
C8_AutoSelectLoadsDiff == AutoSelected => Issued(loadDiff(filetree.selected))

\* C9: after a handled ChangeNotification either no file is selected or the pair
\* (watchScope, relativePath) of the selected file occurs in the file list of a group
C9_SelectionInGroups ==
    lastUpdate.kind = "files" =>
        \/ filetree.selected = NoFile
        \/ PairInGroups(filetree.selected, filetree.repos)

\* the last call of Update handled a FilesChangedMsg and the pair of the file selected
\* before it is still present in the groups
SelectionSurvives ==
    /\ lastUpdate.kind = "files"
    /\ lastUpdate.selected # NoFile
    /\ PairInGroups(lastUpdate.selected, filetree.repos)

\* C10: if the pair of the selected file is still present after a ChangeNotification
\* is reconciled, the Selection is unchanged by that call of Update and the call
\* issues no diff-load request
C10_SelectionSurvival ==
    SelectionSurvives => (filetree.selected = lastUpdate.selected /\ ~IssuedLoad)

\* C10 witness: a selected file survived a notification that changed the file list of
\* its group
C10_Witness ==
    /\ SelectionSurvives
    /\ filetree.selected = lastUpdate.selected
    /\ FirstFile(filetree) # filetree.selected


\* the notification with this id is in msgCh
Enqueued(id) == \E k \in 1..Len(msgCh) : msgCh[k].id = id
\* the notification with this id has been handled by Update
Handled(id) == \E a \in 1..Len(handledLog) : handledLog[a].id = id

\* C3: every notification the watcher enqueues is eventually handled by Update, and
\* none is handled twice, unless Watcher.done is closed first
C3_HandledExactlyOnce ==
    /\ [](\A a, b \in 1..Len(handledLog) :
            (a # b /\ handledLog[a].id > 0) => handledLog[a].id # handledLog[b].id)
    /\ \A id \in 1..MaxFsEvents : Enqueued(id) ~> (Handled(id) \/ done)

\* C3 witness: two notifications of the watcher have been handled
C3_Witness == Handled(1) /\ Handled(2)

\* a flush that is in its select with a notification to send
Sending(fl, i) == fl[i].pc = "send"

\* C5: msgCh never holds more than 64 notifications, and while msgCh is full and done
\* is open every flush that is in its send stays there with its notification
C5_BoundedQueueBlocks ==
    /\ [](Len(msgCh) <= QueueCap)
    /\ [][\A i \in 1..Len(flushes) :
            (Sending(flushes, i) /\ Len(msgCh) = QueueCap /\ ~done)
            => \E j \in 1..Len(flushes') : flushes'[j] = flushes[i]]_vars

\* C5 witness: a flush is in its send while msgCh is full and done is open
C5_Witness ==
    /\ Len(msgCh) = QueueCap
    /\ ~done
    /\ \E i \in 1..Len(flushes) : Sending(flushes, i)

\* C6: once done is closed the loop stops, every flush returns (a blocked send
\* included) and every outstanding WaitForChange returns
C6_ShutdownUnblocks ==
    done ~> (~loopRunning /\ flushes = <<>> /\ ~BagIn(WaitForChangeCmd, cmds))

\* C6 witness: done is closed while the loop runs, a flush is blocked in its send on
\* the full msgCh and a WaitForChange is outstanding
C6_Witness ==
    /\ done
    /\ loopRunning
    /\ Len(msgCh) = QueueCap
    /\ \E i \in 1..Len(flushes) : Sending(flushes, i)
    /\ BagIn(WaitForChangeCmd, cmds)

\* C7: done is closed exactly once however often Close is called, and a call of Close
\* that finds done closed changes nothing
C7_CloseIdempotent ==
    /\ [](closes = IF done THEN 1 ELSE 0)
    /\ [][(done /\ budget'.closeCalls < budget.closeCalls)
          => UNCHANGED <<repos, wt, watcherVars, uiVars, historyVars>>]_vars

\* C7 witness: Close has been called twice
C7_Witness == done /\ closes = 1 /\ budget.closeCalls = MaxCloseCalls - 2

\* the file rows of the flattened projection, in display order
FileRows(m) == SelectSeq(visibleItems(m), LAMBDA item : ~item.isRepo)

\* the file of the first file row of the flattened projection, or NoFile
FirstRowFile(m) ==
    IF FileRows(m) = <<>> THEN NoFile
    ELSE filteredFiles(m, Head(FileRows(m)).repoIndex)[Head(FileRows(m)).fileIndex]

\* the last call of Update handled a FilesChangedMsg and no Selection remained in it:
\* there was none before, or the one before is gone
NoSelectionRemained ==
    /\ lastUpdate.kind = "files"
    /\ lastUpdate.selected = NoFile \/ filetree.selected # lastUpdate.selected

\* C11: when a ChangeNotification is handled and no Selection remains, the Selection
\* becomes the file of the first file row of the flattened projection (collapse flags
\* and filter honoured); without a file row it stays absent and no diff-load request
\* is issued
C11_AutoSelectFirstRow ==
    NoSelectionRemained =>
        /\ filetree.selected = FirstRowFile(filetree)
        /\ FirstRowFile(filetree) = NoFile => ~IssuedLoad

\* C11 witness: auto-select ran under a filter or a collapsed group that hides the
\* first file of the first group
C11_Witness ==
    /\ NoSelectionRemained
    /\ filetree.repos # <<>>
    /\ filetree.selected # filetree.repos[1].Files[1]

\* no diff load is in flight: no selection or load command runs and no FileSelectedMsg
\* or DiffLoadedMsg waits for Update
LoadsCompleted ==
    /\ Running("selected") = {} /\ Running("load") = {}
    /\ Inbox("selected") = {} /\ Inbox("diff") = {}

\* C12: whatever the order in which the loads complete, once all of them have completed
\* and been handled, a diff the panel displays is the diff of the file requested last
C12_LatestDiffShown ==
    (LoadsCompleted /\ lastUpdate.requested # NoFile /\ View(diffview).kind = "diff")
        => View(diffview).File = lastUpdate.requested

\* C13: after every handled ChangeNotification no RepoGroup has an empty file list: a
\* group whose list became empty is removed, and an empty notification for a repo
\* without a group creates none
C13_NoEmptyGroup ==
    \A i \in 1..Len(filetree.repos) : filetree.repos[i].Files # <<>>

\* C13 witness: the last two notifications handled were for the same repo, the first
\* with files (the repo has a group), the second empty (the group is removed)
C13_Witness ==
    /\ lastUpdate.kind = "files"
    /\ Len(handledLog) >= 2
    /\ handledLog[Len(handledLog)].n = 0
    /\ handledLog[Len(handledLog) - 1].n > 0
    /\ handledLog[Len(handledLog) - 1].Repo = handledLog[Len(handledLog)].Repo
    /\ \A i \in 1..Len(filetree.repos) :
          filetree.repos[i].Repo # handledLog[Len(handledLog)].Repo

\* C14: after any handled message the cursor is a valid index of the flattened
\* projection: 0 <= cursor <= length - 1, or 0 when the projection is empty
C14_CursorValid ==
    IF visibleItems(filetree) = <<>> THEN filetree.cursor = 0
    ELSE 0 <= filetree.cursor /\ filetree.cursor <= Len(visibleItems(filetree)) - 1

\* C14 witness: a key that is not a move up (a filter character, a collapse) took the
\* cursor's row away and the cursor came down to the last row
C14_Witness ==
    /\ lastUpdate.kind = "key"
    /\ lastUpdate.key # "k"
    /\ lastUpdate.cursor > filetree.cursor

\* how often cmd is among the commands the last Update returned
IssuedTimes(cmd) == Len(SelectSeq(lastUpdate.cmds, LAMBDA c : c = cmd))

\* C15: the Update that handles a ChangeNotification issues exactly one new
\* WaitForChange, and while the program runs the coordinator listens: a WaitForChange
\* is outstanding, or a notification is about to be handled and will issue one
C15_KeepsListening ==
    /\ lastUpdate.kind = "files" => IssuedTimes(WaitForChangeCmd) = 1
    /\ uiRunning => BagIn(WaitForChangeCmd, cmds) \/ Inbox("files") # {}

\* C15 witness: a notification received from the watcher by a WaitForChange that an
\* earlier handled notification issued has been handled, and a WaitForChange is out
C15_Witness ==
    /\ lastUpdate.kind = "files"
    /\ lastUpdate.msg.id > 1
    /\ Len(handledLog) >= 3
    /\ BagIn(WaitForChangeCmd, cmds)

\* C16: after the Update that handles a DiffLoadedMsg carrying an error, the panel
\* displays the error rendering for that failure, not the placeholder, the loading
\* indicator or an earlier file's diff
C16_ErrorDisplayed ==
    (lastUpdate.kind = "diff" /\ lastUpdate.msg.Err)
        => View(diffview) = ErrorContent(lastUpdate.msg.File)

\* this step is the Update that handles a press of key
KeyStep(key) ==
    /\ budget'.keys = budget.keys - 1
    /\ lastUpdate'.kind = "key"
    /\ lastUpdate'.key = key

\* the row under the cursor is a file row, and its file
CursorOnFileRow ==
    /\ filetree.cursor < Len(visibleItems(filetree))
    /\ ~visibleItems(filetree)[filetree.cursor + 1].isRepo
CursorFile ==
    filteredFiles(filetree, visibleItems(filetree)[filetree.cursor + 1].repoIndex)
        [visibleItems(filetree)[filetree.cursor + 1].fileIndex]

\* C17: enter pressed on a file row, with the file tree focused and filter mode
\* inactive, sets the Selection to the file of the cursor row and issues one selection
\* command for that file and nothing else; the Update that handles a FileSelectedMsg
\* issues exactly one loadDiff, for the file of the message
C17_UserSelect ==
    [][ /\ (KeyStep("enter") /\ focus = LeftPanel /\ ~filetree.filtering /\ CursorOnFileRow)
            => /\ filetree'.selected = CursorFile
               /\ lastUpdate'.cmds = <<Cmd("selected", CursorFile)>>
        /\ (lastUpdate'.kind = "selected")
            => lastUpdate'.cmds = <<Cmd("load", lastUpdate'.msg.File)>> ]_vars

\* C17 witness: the operator has selected the second file row and the FileSelectedMsg
\* has been handled: the load of that file runs
C17_Witness ==
    /\ lastUpdate.kind = "selected"
    /\ filetree.cursor = 2
    /\ ~filetree.filtering
    /\ lastUpdate.msg.File = filetree.selected
    /\ BagIn(loadDiff(filetree.selected), cmds)

\* this step is the Update that handles a press of some key
AnyKeyStep == budget'.keys = budget.keys - 1 /\ lastUpdate'.kind = "key"

\* the cursor after the step is the cursor before it, re-clamped to the rows after it
CursorReclamped ==
    filetree'.cursor =
        IF filetree.cursor < Len(visibleItems(filetree')) THEN filetree.cursor
        ELSE IF visibleItems(filetree') = <<>> THEN 0
        ELSE Len(visibleItems(filetree')) - 1

\* C18: while filter mode is active a key press performs no navigation action: the
\* cursor changes only by re-clamping, no group is collapsed or expanded, nothing is
\* selected and no refresh is started; the groups, their collapse flags and the
\* Selection are unchanged
C18_FilterModeFrame ==
    [][ (AnyKeyStep /\ filetree.filtering)
            => /\ filetree'.repos = filetree.repos
               /\ filetree'.selected = filetree.selected
               /\ CursorReclamped
               /\ \A k \in 1..Len(lastUpdate'.cmds) :
                      lastUpdate'.cmds[k].kind \notin {"refresh", "selected", "load"} ]_vars

\* C18 witness: r was pressed in filter mode with groups on display: it is in the
\* filter and no refresh runs
C18_Witness ==
    /\ lastUpdate.kind = "key"
    /\ lastUpdate.key = "r"
    /\ filetree.filtering
    /\ filetree.filter = <<"r">>
    /\ filetree.repos # <<>>
    /\ Running("refresh") = {}

\* C19: from the entry into filter mode until it is accepted or cancelled, every press
\* of a single-character key appends the character to the filter and re-clamps the cursor
C19_FilterCaptures ==
    [][ (AnyKeyStep /\ filetree.filtering /\ lastUpdate'.key \in OneCharKeys)
            => /\ filetree'.filter = Append(filetree.filter, lastUpdate'.key)
               /\ CursorReclamped ]_vars

\* this step is a refreshAll command returning
RefreshStep == BagIn(refreshAllCmd, cmds) /\ cmds' = BagRemove(cmds, refreshAllCmd)

\* the changed-file state of repo i differs from the one the Coordinator handled last
\* for it (none at the start)
StateChanged(i) ==
    GetChangedFiles(repos, i, wt) # (IF lastHandled[i] = NotSent THEN <<>> ELSE lastHandled[i])

\* C20: a notification that refresh-now delivers holds the result of a repository whose
\* changed-file state has changed
C20_RefreshDeliversChange ==
    [][ (RefreshStep /\ inbox' # inbox)
            => \E i \in 1..Len(repos) :
                  /\ StateChanged(i)
                  /\ inbox' = BagAdd(inbox, FilesChangedMsg(i, GetChangedFiles(repos, i, wt), 0))
      ]_vars

\* a and b are the same letter in upper or lower case
SameLetter(a, b) == a = b \/ {a, b} = {"w", "W"} \/ {a, b} = {"x", "X"}

\* path contains text as a substring, case not distinguished
Matches(path, text) ==
    \E k \in 0..(Len(path) - Len(text)) :
        \A n \in 1..Len(text) : SameLetter(path[k + n], text[n])

\* the indices of the files of group ri of tree m that match the filter of m
Matching(m, ri) ==
    {k \in 1..Len(m.repos[ri].Files) : Matches(m.repos[ri].Files[k].Path, m.filter)}

\* the rows the projection of tree m must hold: a header for each group that has a
\* matching file or is shown without filter, and, if the group is not collapsed, a
\* file row for each matching file (numbered in file order)
RowsOf(m) ==
    {flatItem(TRUE, ri, 0) :
        ri \in {i \in 1..Len(m.repos) : m.filter = <<>> \/ Matching(m, i) # {}}}
    \cup
    {flatItem(FALSE, t[1], t[2]) :
        t \in {u \in (1..Len(m.repos)) \X (1..Cardinality(TreePaths)) :
                 ~m.repos[u[1]].Collapsed /\ u[2] <= Cardinality(Matching(m, u[1]))}}

\* row a is displayed above row b: group order, the header first, then file order
Above(a, b) ==
    \/ a.repoIndex < b.repoIndex
    \/ a.repoIndex = b.repoIndex /\ a.fileIndex < b.fileIndex

\* C21: the flattened projection holds the groups in group order, each with one
\* header row followed, only when the group is not collapsed, by one file row per
\* filter-matching file in file order; while a filter is active a group without a
\* matching file contributes no row
C21_Projection ==
    call.fn = "visibleItems" =>
        /\ {call.res[k] : k \in 1..Len(call.res)} = RowsOf(call.arg[1])
        /\ \A j, k \in 1..Len(call.res) : j < k => Above(call.res[j], call.res[k])

\* C21 witness: a projection under a filter that omits the first group, with a
\* collapsed second group that shows its header only
C21_Witness ==
    /\ call.fn = "visibleItems"
    /\ call.arg[1].filter # <<>>
    /\ Len(call.arg[1].repos) = 2
    /\ call.arg[1].repos[2].Collapsed
    /\ call.res = <<flatItem(TRUE, 2, 0)>>

\* the n-th smallest element of the set S of numbers
Nth(S, n) == CHOOSE k \in S : Cardinality({j \in S : j < k}) = n - 1

\* C22: filteredFiles returns exactly the files of the group whose relative path
\* contains the filter text as a substring, case not distinguished, in their original
\* order; with an empty filter it returns all files of the group
C22_FilteredFiles ==
    call.fn = "filteredFiles" =>
        /\ Len(call.res) = Cardinality(Matching(call.arg[1], call.arg[2]))
        /\ \A n \in 1..Len(call.res) :
              call.res[n] = call.arg[1].repos[call.arg[2]].Files
                                [Nth(Matching(call.arg[1], call.arg[2]), n)]
        /\ call.arg[1].filter = <<>> => call.res = call.arg[1].repos[call.arg[2]].Files

\* C22 witness: the filter X on the files a/x, b/X and w returns a/x and b/X
C22_Witness ==
    /\ call.fn = "filteredFiles"
    /\ call.arg[1].filter = <<"X">>
    /\ Len(call.arg[1].repos[call.arg[2]].Files) = 3
    /\ Len(call.res) = 2
    /\ call.res[1].Path = <<"a", "/", "x">>
    /\ call.res[2].Path = <<"b", "/", "X">>

\* the display codes from the highest precedence to the lowest: Untracked, Added,
\* Deleted, Renamed, Modified, Copied
Precedence == <<"?", "A", "D", "R", "M", "C">>

\* the ranks in Precedence of the codes present in xy
Present(xy) == {k \in 1..Len(Precedence) : Precedence[k] = xy[1] \/ Precedence[k] = xy[2]}

\* C24: for every two-character status code parseStatus returns the code of highest
\* precedence present in either position, and the index code when none is present
C24_StatusPrecedence ==
    call.fn = "parseStatus" =>
        call.res = IF Present(call.arg) = {} THEN call.arg[1]
                   ELSE Precedence[Min(Present(call.arg))]

\* C24 witness: index code M and worktree code D display as D
C24_Witness ==
    /\ call.fn = "parseStatus"
    /\ call.arg = <<"M", "D">>
    /\ call.res = "D"

\* how many of the running calls of flush fl are in state f
FlushCount(fl, f) == Cardinality({k \in 1..Len(fl) : fl[k] = f})

\* this step is a failed status query of a flush in state f: the flush leaves f and no
\* flush comes to the point of sending
FailedQuery(f) ==
    /\ f.pc = "query"
    /\ FlushCount(flushes', f) < FlushCount(flushes, f)
    /\ \A k \in 1..Len(flushes') :
          flushes'[k].pc = "send" =>
              FlushCount(flushes', flushes'[k]) <= FlushCount(flushes, flushes'[k])

\* after this step a flush is about to query the paths rest, which none was before
QueriesNext(rest) ==
    \E k \in 1..Len(flushes') :
        /\ flushes'[k].pc = "query"
        /\ flushes'[k].paths = rest
        /\ FlushCount(flushes', flushes'[k]) > FlushCount(flushes, flushes'[k])

\* C23: a failed status query enqueues and delivers no notification and leaves the
\* display as it is, the flush goes on to query its other pending repositories, and no
\* step (a failed query and a notifier error included) ends the watcher loop or the
\* Coordinator loop
C23_ErrorsIgnored ==
    [][ /\ \A k \in 1..Len(flushes) :
              FailedQuery(flushes[k]) =>
                  /\ msgCh' = msgCh
                  /\ inbox' = inbox
                  /\ filetree' = filetree
                  /\ Len(flushes[k].paths) > 1 => QueriesNext(Tail(flushes[k].paths))
        /\ loopRunning => loopRunning'
        /\ uiRunning => uiRunning' ]_vars

\* C23 witness: a flush has skipped a repository whose query failed and is about to
\* query the next one, and the loop has received a notifier error and runs
C23_Witness ==
    /\ \E k \in 1..Len(flushes) : flushes[k].pc = "query" /\ flushes[k].skipped >= 1
    /\ budget.errors = 0
    /\ loopRunning
    /\ uiRunning

\* path lies under the watchScope of repo i
InScope(path, i) == HasPrefix(path, repos[i].WatchPath \o <<PathSeparator>>)

\* this step is loop receiving the event at the head of fsw.Events
LoopEventStep == loopRunning /\ events # <<>> /\ events' = Tail(events)

\* flush, which knows the pending set only, will query for pending path p the repo
\* findRepo(p): some pending path leads it to a repo with the watchScope of repo i
WillQuery(pend, i) ==
    \E p \in pend :
        /\ findRepo(repos, p) # NoRepo
        /\ repos[findRepo(repos, p)].WatchPath = repos[i].WatchPath

\* C25: every non-ignored filesystem event under the watchScope of a tracked repository
\* eventually causes a status query and a notification for that repository; so when
\* loop has received such an event, the pending set makes flush query that repository
C25_EventReachesItsRepo ==
    [][ (LoopEventStep /\ ~shouldIgnore(repos, Head(events)))
            => \A i \in 1..Len(repos) :
                  InScope(Head(events), i) => WillQuery(pending', i) ]_vars

\* C26: notifications for one repository are enqueued in the order in which their
\* status snapshots were taken: the snapshot of a notification flush enqueues is never
\* older than the snapshot of the notification enqueued before it for the same repo,
\* unless the two snapshots hold the same file list
C26_SnapshotOrder ==
    [][ \A i \in 1..Len(repos) :
            snaps'.sent[i] < snaps.sent[i] => lastSent'[i] = lastSent[i] ]_vars

\* C27: at any time at most one WaitForChange command is outstanding, that is, issued
\* by Init or by Update and not yet completed
C27_OneWaitOutstanding == CopiesIn(WaitForChangeCmd, cmds) <= 1

\* startup is over and nothing else has happened: no filesystem event and no key since
\* Init, initialScan has returned and its result has been handled, and no command but
\* WaitForChange is running, so that only an event or a key makes the program move again
StartupSettled ==
    /\ uiRunning
    /\ budget.events = MaxFsEvents /\ budget.keys = MaxKeys
    /\ ~BagIn(initialScanCmd, cmds)
    /\ inbox = EmptyBag
    /\ \A c \in BagToSet(cmds) : c = WaitForChangeCmd

\* the tracked repositories that have at least one changed file
ChangedRepos == {i \in 1..Len(repos) : GetChangedFiles(repos, i, wt) # <<>>}

\* C28: after startup, without a further filesystem event or key press, every tracked
\* repository that has a changed file has a RepoGroup in the display; stated for the
\* startups in which the first repository with changes has got its group, that is, in
\* which no status query that initialScan ran has failed on a repository with changes
C28_StartupShowsAll ==
    (StartupSettled /\ ChangedRepos # {} /\ GroupsOf(Min(ChangedRepos)) # {})
        => \A i \in ChangedRepos : GroupsOf(i) # {}

\* a flush that has started and has not yet taken the pending paths
FlushAboutToTake == \E k \in 1..Len(flushes) : flushes[k].pc = "start"

\* C29: whenever a repository is pending, a debounce timer is armed (the one
\* Watcher.timer refers to, or one flush has dropped from it) or a flush that will take
\* the pending paths has started, under every interleaving of loop and flush
C29_PendingHasTimer == pending # {} => (armed \/ orphans > 0 \/ FlushAboutToTake)

\* the race: the timer has fired and its flush has started, and before the flush takes
\* the pending paths loop receives another event and resets that timer
C29_Witness == pending # {} /\ timer /\ armed /\ FlushAboutToTake

\* C30: once Close has closed done, no notification is enqueued on msgCh any more,
\* neither by a flush that was running at the shutdown nor by a timer armed before it
C30_NoSendAfterClose == [][done => Len(msgCh') <= Len(msgCh)]_vars

\* this step is the Update that handles a FilesChangedMsg
FilesStep == Len(handledLog') = Len(handledLog) + 1

\* the groups of the repositories other than repository i, in display order
OtherGroups(groups, i) == SelectSeq(groups, LAMBDA rg : rg.Repo # i)

\* the collapsed flags of the groups of repository i
CollapsedOf(groups, i) == {groups[g].Collapsed : g \in {h \in 1..Len(groups) : groups[h].Repo = i}}

\* C31: handling a ChangeNotification for repository R changes only R's group: the
\* groups of the other repositories keep their file lists, their collapsed flags and
\* their relative order, and when R had a group and the new list is not empty, R's
\* group keeps its collapsed flag
C31_OnlyItsGroup ==
    [][ FilesStep =>
          LET R == lastUpdate'.msg.Repo
          IN  /\ OtherGroups(filetree'.repos, R) = OtherGroups(filetree.repos, R)
              /\ (lastUpdate'.msg.Files # <<>> /\ CollapsedOf(filetree.repos, R) # {})
                     => CollapsedOf(filetree'.repos, R) = CollapsedOf(filetree.repos, R) ]_vars

\* C32: with the file tree focused and filter mode inactive, a press of "/" enters
\* filter mode with an empty filter, also when the flattened projection is empty (no
\* group on display, or a committed filter that matches no file)
C32_SlashEntersFilter ==
    [][ (KeyStep("/") /\ focus = LeftPanel /\ ~filetree.filtering)
            => (filetree'.filtering /\ filetree'.filter = <<>>) ]_vars

\* C33: a press of ctrl+c makes Update return the quit command in every state,
\* whichever panel has the focus and whether or not filter mode is active
C33_CtrlCQuits ==
    [][ KeyStep("ctrl+c") => IssuedTimes(QuitCmd)' = 1 ]_vars

====
